---- MODULE Spec2Model ----
(***************************************************************************)
(* textify: the rule-resolution and directory-walk engine.                 *)
(*                                                                         *)
(* The model follows internal/scanner/scanner.go (Scan, walk and their     *)
(* helpers), internal/fileutil/binary.go (IsBinary), the DirRule / Config  *)
(* data model, the runStart command of cmd/textify/main.go and             *)
(* internal/config/discovery.go (Discover, deepScanExtensions).            *)
(*                                                                         *)
(* The state holds names, patterns, extensions and Rule Store keys as      *)
(* strings; Spelling gives the characters of each, and filepath.Ext,       *)
(* filepath.Match, the relative path of an entry and the byte order of     *)
(* os.ReadDir are computed on those characters.  A filesystem path is a    *)
(* sequence of names; the empty sequence is the root.  The recursion of    *)
(* walk is an explicit stack of frames, one loop iteration per step.       *)
(***************************************************************************)
EXTENDS Integers, Sequences, FiniteSets, TLC

(***************************************************************************)
(* Bounds of the model.                                                    *)
(***************************************************************************)
\* most keys a Rule Store holds
MaxRules == 2
\* most I/O faults injected into one behaviour
MaxFaults == 1
\* most runs of Scan in one behaviour of SpecRerun
MaxRuns == 2
\* bytes io.Copy has written when a copy fault strikes
CopiedBeforeFault == 1

(***************************************************************************)
(* Strings.                                                                *)
(***************************************************************************)
\* The characters of every string of the model.
Spelling ==
  ("" :> <<>>) @@
  ("." :> <<".">>) @@
  (".git" :> <<".", "g", "i", "t">>) @@
  (".gitignore" :> <<".", "g", "i", "t", "i", "g", "n", "o", "r", "e">>) @@
  ("textify.yaml" :> <<"t", "e", "x", "t", "i", "f", "y", ".", "y", "a", "m", "l">>) @@
  ("codebase.txt" :> <<"c", "o", "d", "e", "b", "a", "s", "e", ".", "t", "x", "t">>) @@
  ("out.txt" :> <<"o", "u", "t", ".", "t", "x", "t">>) @@
  ("main.go" :> <<"m", "a", "i", "n", ".", "g", "o">>) @@
  ("readme.md" :> <<"r", "e", "a", "d", "m", "e", ".", "m", "d">>) @@
  ("script.py" :> <<"s", "c", "r", "i", "p", "t", ".", "p", "y">>) @@
  ("secret.env" :> <<"s", "e", "c", "r", "e", "t", ".", "e", "n", "v">>) @@
  ("pkg" :> <<"p", "k", "g">>) @@
  ("api" :> <<"a", "p", "i">>) @@
  ("web" :> <<"w", "e", "b">>) @@
  ("w.md" :> <<"w", ".", "m", "d">>) @@
  ("N.MD" :> <<"N", ".", "M", "D">>) @@
  ("MD" :> <<"M", "D">>) @@
  ("gitignore" :> <<"g", "i", "t", "i", "g", "n", "o", "r", "e">>) @@
  ("git" :> <<"g", "i", "t">>) @@
  ("yaml" :> <<"y", "a", "m", "l">>) @@
  ("txt" :> <<"t", "x", "t">>) @@
  ("py" :> <<"p", "y">>) @@
  ("log" :> <<"l", "o", "g">>) @@
  ("pkg/api" :> <<"p", "k", "g", "/", "a", "p", "i">>) @@
  ("a.go" :> <<"a", ".", "g", "o">>) @@
  ("b.log" :> <<"b", ".", "l", "o", "g">>) @@
  ("k.env" :> <<"k", ".", "e", "n", "v">>) @@
  ("c.go" :> <<"c", ".", "g", "o">>) @@
  ("d.ts" :> <<"d", ".", "t", "s">>) @@
  ("head" :> <<"h", "e", "a", "d">>) @@
  ("go" :> <<"g", "o">>) @@
  ("md" :> <<"m", "d">>) @@
  ("ts" :> <<"t", "s">>) @@
  ("env" :> <<"e", "n", "v">>) @@
  ("*" :> <<"*">>) @@
  ("*.env" :> <<"*", ".", "e", "n", "v">>) @@
  ("d.??" :> <<"d", ".", "?", "?">>)

\* The characters in use, in byte (ASCII) order.
Alphabet ==
  <<"*", ".", "/", "?", "D", "M", "N", "a", "b", "c", "d", "e", "f", "g", "h", "i", "j", "k",
    "l", "m", "n", "o", "p", "q", "r", "s", "t", "u", "v", "w", "x", "y", "z">>

Code(c) == CHOOSE i \in 1..Len(Alphabet) : Alphabet[i] = c

\* Byte-wise comparison of two character sequences, the order in which
\* os.ReadDir sorts names.
RECURSIVE StrLess(_, _)
StrLess(a, b) ==
  IF b = <<>> THEN FALSE
  ELSE IF a = <<>> THEN TRUE
  ELSE IF Head(a) = Head(b) THEN StrLess(Tail(a), Tail(b))
  ELSE Code(Head(a)) < Code(Head(b))

Min(a, b) == IF a < b THEN a ELSE b

\* Index of the last occurrence of c in s, 0 when there is none.
RECURSIVE LastIndex(_, _)
LastIndex(s, c) ==
  IF s = <<>> THEN 0
  ELSE IF s[Len(s)] = c THEN Len(s)
  ELSE LastIndex(SubSeq(s, 1, Len(s) - 1), c)

Last(s) == s[Len(s)]
Front(s) == SubSeq(s, 1, Len(s) - 1)

(***************************************************************************)
(* path/filepath and strings, on character sequences.                      *)
(***************************************************************************)
\* filepath.Ext: the suffix beginning at the final dot of the name, or "".
Ext(name) ==
  LET i == LastIndex(name, ".")
  IN IF i = 0 THEN <<>> ELSE SubSeq(name, i, Len(name))

\* strings.TrimPrefix(s, ".")
TrimDot(s) == IF s # <<>> /\ Head(s) = "." THEN Tail(s) ELSE s

\* filepath.ToSlash(filepath.Rel(rootPath, p)) for a path p under the root:
\* "." for the root itself, else the names joined by "/".
RECURSIVE RelPath(_)
RelPath(p) ==
  IF p = <<>> THEN <<".">>
  ELSE IF Len(p) = 1 THEN Spelling[p[1]]
  ELSE RelPath(Front(p)) \o <<"/">> \o Spelling[Last(p)]

\* filepath.Match for patterns of literals, '*' and '?': '*' matches any
\* run of non-separator characters, '?' one non-separator character.
RECURSIVE Match(_, _)
Match(p, s) ==
  IF p = <<>> THEN s = <<>>
  ELSE IF Head(p) = "*"
    THEN \E k \in 0..Len(s) :
           /\ \A j \in 1..k : s[j] # "/"
           /\ Match(Tail(p), SubSeq(s, k + 1, Len(s)))
  ELSE /\ s # <<>>
       /\ \/ Head(p) = "?" /\ Head(s) # "/"
          \/ Head(p) = Head(s)
       /\ Match(Tail(p), Tail(s))

(***************************************************************************)
(* config: DirRule and Config.                                             *)
(***************************************************************************)
DirRule(en, exts, xexts, inc, exc) ==
  [Enabled |-> en, Extensions |-> exts, ExcludeExtensions |-> xexts,
   Include |-> inc, Exclude |-> exc]

\* Scan's default when the store has no "." entry.
DefaultRootRule == DirRule(TRUE, <<>>, <<>>, <<>>, <<>>)

\* The rules the Rule Stores of the model are drawn from.
\* Extensions and Include given, Enabled left at Go's zero value (false):
\* the root rule of TestScanWithConfig.
RuleScenarioA == DirRule(FALSE, <<"go", "md">>, <<>>, <<"secret.env">>, <<>>)
\* The rule of scenario A with Enabled set; also forces the directory pkg.
RuleGoMd == DirRule(TRUE, <<"go", "md">>, <<>>, <<"secret.env", "pkg">>, <<>>)
\* Everything forced.
RuleForceAll == DirRule(TRUE, <<>>, <<>>, <<"*">>, <<>>)
\* All five fields at once: "go" is allowed and blocked, k.env and pkg/api
\* are both included and excluded.
RuleGranular ==
  DirRule(TRUE, <<"go", "md">>, <<"go", "env">>,
          <<"*.env", "api">>, <<"k.env", "pkg/api">>)
\* Enabled, a block list and no allow list; c.go and d.ts are forced.
RuleBlock == DirRule(TRUE, <<>>, <<"go", "ts">>, <<"c.go", "d.??">>, <<>>)
\* Scenario B: only ts.
RuleTs == DirRule(TRUE, <<"ts">>, <<>>, <<>>, <<>>)

Rules ==
  {RuleScenarioA, RuleGoMd, RuleForceAll, RuleGranular, RuleBlock, RuleTs}

\* Keys of Config.Dirs: relative directory paths, "." for the root.
RuleKeys == {".", "pkg", "pkg/api"}

RuleStores ==
  UNION {[K -> Rules] : K \in {K \in SUBSET RuleKeys : Cardinality(K) <= MaxRules}}

OutputFiles == {"codebase.txt", "out.txt"}

\* config.DefaultConfig: codebase.txt and an empty Rule Store.
DefaultConfig == [OutputFile |-> "codebase.txt", Dirs |-> <<>>]

Configs == {[OutputFile |-> o, Dirs |-> d] : o \in OutputFiles, d \in RuleStores}

(***************************************************************************)
(* The project tree and its .gitignore.                                    *)
(***************************************************************************)
TextBytes == <<104, 105>>
NulBytes == <<104, 0, 105>>

TreeDirs == {<<>>, <<".git">>, <<"pkg">>, <<"pkg", "api">>, <<"web">>}

TreeFiles ==
  (<<".git", "head">> :> TextBytes) @@
  (<<".gitignore">> :> TextBytes) @@
  (<<"codebase.txt">> :> TextBytes) @@
  (<<"main.go">> :> TextBytes) @@
  (<<"readme.md">> :> <<>>) @@
  (<<"script.py">> :> TextBytes) @@
  (<<"secret.env">> :> TextBytes) @@
  (<<"textify.yaml">> :> TextBytes) @@
  (<<"pkg", "a.go">> :> TextBytes) @@
  (<<"pkg", "b.log">> :> NulBytes) @@
  (<<"pkg", "k.env">> :> TextBytes) @@
  (<<"pkg", "textify.yaml">> :> TextBytes) @@
  (<<"pkg", "api", ".git">> :> TextBytes) @@
  (<<"pkg", "api", "c.go">> :> TextBytes) @@
  (<<"pkg", "api", "codebase.txt">> :> TextBytes) @@
  (<<"pkg", "d.ts">> :> TextBytes) @@
  (<<"web", "N.MD">> :> TextBytes) @@
  (<<"web", "w.md">> :> TextBytes)

\* The file whose bytes vary when classification is under study.
ProbePath == <<"web", "w.md">>

\* No file has other bytes than TreeFiles gives it (256 is not a byte).
NoProbe == <<256>>

\* The output file has not been created (257 is not a byte).
Absent == <<257>>

\* The patterns of the root .gitignore (none: the file has no pattern).
IgnoreSpecs == {{}, {"*.env", "pkg"}}

\* I/O faults: a directory that cannot be listed, a file that cannot be
\* opened, whose first read fails, that vanishes between classification and
\* copy, or whose copy fails.
FaultChoices ==
  {[kind |-> "readdir", path |-> <<"pkg", "api">>],
   [kind |-> "open", path |-> <<"main.go">>],
   [kind |-> "read", path |-> <<"pkg", "api", "c.go">>],
   [kind |-> "reopen", path |-> <<"secret.env">>],
   [kind |-> "copy", path |-> <<"pkg", "a.go">>]}

FaultSets == {F \in SUBSET FaultChoices : Cardinality(F) <= MaxFaults}

(***************************************************************************)
(* fileutil.IsBinary.                                                      *)
(***************************************************************************)
\* size of the classification buffer
BinaryBufSize == 512

IsCont(b) == b >= 128 /\ b <= 191

\* The index of the first byte of b[from..] that is not ASCII, Len(b) + 1
\* when there is none.
FirstNonAscii(b, from) ==
  IF \A j \in from..Len(b) : b[j] < 128 THEN Len(b) + 1
  ELSE CHOOSE j \in from..Len(b) :
         b[j] >= 128 /\ \A m \in from..(j - 1) : b[m] < 128

\* unicode/utf8.Valid on bytes b[from..]: ASCII bytes are passed over, a
\* longer character is checked by the ranges of its bytes.
RECURSIVE Utf8ValidFrom(_, _)
Utf8ValidFrom(b, from) ==
  LET i == FirstNonAscii(b, from)
  IN
  IF i > Len(b) THEN TRUE
  ELSE LET c == b[i]
           has(k) == i + k <= Len(b)
       IN IF c < 128 THEN Utf8ValidFrom(b, i + 1)
          ELSE IF c >= 194 /\ c <= 223
            THEN has(1) /\ IsCont(b[i + 1]) /\ Utf8ValidFrom(b, i + 2)
          ELSE IF c >= 224 /\ c <= 239
            THEN /\ has(2)
                 /\ IsCont(b[i + 1]) /\ IsCont(b[i + 2])
                 /\ (c = 224 => b[i + 1] >= 160)
                 /\ (c = 237 => b[i + 1] <= 159)
                 /\ Utf8ValidFrom(b, i + 3)
          ELSE IF c >= 240 /\ c <= 244
            THEN /\ has(3)
                 /\ IsCont(b[i + 1]) /\ IsCont(b[i + 2]) /\ IsCont(b[i + 3])
                 /\ (c = 240 => b[i + 1] >= 144)
                 /\ (c = 244 => b[i + 1] <= 143)
                 /\ Utf8ValidFrom(b, i + 4)
          ELSE FALSE

Utf8Valid(b) == Utf8ValidFrom(b, 1)

\* Faulty variant: the whole file is examined.
IsBinaryWholeFile(bytes) ==
  IF Len(bytes) = 0 THEN FALSE
  ELSE \/ \E i \in 1..Len(bytes) : bytes[i] = 0
       \/ ~Utf8Valid(bytes)

\* IsBinary on a file that opens and reads: the first min(512, size) bytes
\* hold a NUL or are not valid UTF-8; an empty file is text.
IsBinary(bytes) ==
  LET n == Min(Len(bytes), BinaryBufSize)
      content == SubSeq(bytes, 1, n)
  IN IF n = 0 THEN FALSE
     ELSE \/ \E i \in 1..n : content[i] = 0
          \/ ~Utf8Valid(content)

(***************************************************************************)
(* scanner: the helpers of walk.                                           *)
(***************************************************************************)
\* shouldAlwaysExclude: hard-coded names.
shouldAlwaysExclude(name) ==
  \/ name = Spelling[".git"]
  \/ name = Spelling["textify.yaml"]
  \/ name = Spelling["codebase.txt"]

\* checkPatternMatch: glob on the name, glob on the relative path, or the
\* relative path itself.
checkPatternMatch(name, relPath, patterns) ==
  \E i \in 1..Len(patterns) :
    LET p == Spelling[patterns[i]]
    IN \/ Match(p, name)
       \/ Match(p, relPath)
       \/ p = relPath

contains(slice, item) == \E i \in 1..Len(slice) : Spelling[slice[i]] = item

\* matcher.Match of the root .gitignore: a pattern without a separator
\* matches the basename at any depth.
matcherMatch(spec, path) ==
  \E p \in spec : Match(Spelling[p], Spelling[Last(path)])

\* dirRules[key], exists: the map lookup by the characters of the key.
HasKey(dirRules, key) == \E k \in DOMAIN dirRules : Spelling[k] = key
Lookup(dirRules, key) == dirRules[CHOOSE k \in DOMAIN dirRules : Spelling[k] = key]

\* Faulty variant: the entry is merged into the inherited rule, an empty
\* allow list inheriting the parent's.
resolveRuleMerged(dirRules, relDir, currentRule) ==
  IF HasKey(dirRules, relDir)
    THEN LET r == Lookup(dirRules, relDir)
         IN IF Len(r.Extensions) = 0
              THEN [r EXCEPT !.Extensions = currentRule.Extensions]
              ELSE r
    ELSE currentRule

\* walk, lines 49-51: an exact-match entry replaces the inherited rule.
resolveRule(dirRules, relDir, currentRule) ==
  IF HasKey(dirRules, relDir) THEN Lookup(dirRules, relDir) ELSE currentRule

\* Faulty variant: the enabled check on entry is missing.
dirDisabledNever(currentRule) == FALSE

\* walk, line 55: the enabled check on entry.
dirDisabled(currentRule) == ~currentRule.Enabled

\* Faulty variant: include is consulted first and wins.
userExcludedUnlessForced(name, relEntryPath, currentRule) ==
  /\ checkPatternMatch(name, relEntryPath, currentRule.Exclude)
  /\ ~checkPatternMatch(name, relEntryPath, currentRule.Include)

\* walk, line 81: user excludes.
userExcluded(name, relEntryPath, currentRule) ==
  checkPatternMatch(name, relEntryPath, currentRule.Exclude)

\* Faulty variant: an entry is also forced when one of its ancestor
\* directories is named by an include pattern.
forceIncludedWithAncestors(name, relEntryPath, currentRule) ==
  \/ checkPatternMatch(name, relEntryPath, currentRule.Include)
  \/ \E k \in 1..(Len(relEntryPath) - 1) :
       /\ relEntryPath[k + 1] = "/"
       /\ \E i \in 1..Len(currentRule.Include) :
            Spelling[currentRule.Include[i]] = SubSeq(relEntryPath, 1, k)

\* walk, line 89: force include.
forceIncluded(name, relEntryPath, currentRule) ==
  checkPatternMatch(name, relEntryPath, currentRule.Include)

\* walk, lines 93-97: the child directory's own rule disables it.
subDirDisabled(dirRules, relEntryPath) ==
  HasKey(dirRules, relEntryPath) /\ ~Lookup(dirRules, relEntryPath).Enabled

\* Faulty variant: the matcher is not consulted.
gitignoreSkipNever(isForced, matched) == FALSE

\* Faulty variant: gitignore applies to forced entries too.
gitignoreSkipForcedToo(isForced, matched) == matched

\* walk, lines 100 and 116: gitignore, unless forced.
gitignoreSkip(isForced, matched) == ~isForced /\ matched

\* Faulty variant: an extension on the allow list escapes the block list.
extensionExcludedUnlessAllowed(isForced, currentRule, ext) ==
  /\ ~isForced
  /\ contains(currentRule.ExcludeExtensions, ext)
  /\ ~contains(currentRule.Extensions, ext)

\* walk, lines 121-125: the block list, unless forced.
extensionExcluded(isForced, currentRule, ext) ==
  /\ ~isForced
  /\ Len(currentRule.ExcludeExtensions) > 0
  /\ contains(currentRule.ExcludeExtensions, ext)

\* Faulty variant: the allow list applies to forced files too.
extensionNotAllowedForcedToo(isForced, currentRule, ext) ==
  /\ Len(currentRule.Extensions) > 0
  /\ ~contains(currentRule.Extensions, ext)

\* walk, lines 129-133: the allow list, unless forced.
extensionNotAllowed(isForced, currentRule, ext) ==
  /\ ~isForced
  /\ Len(currentRule.Extensions) > 0
  /\ ~contains(currentRule.Extensions, ext)

\* Faulty variant: a directory with an enabled rule of its own is entered
\* before the exclude patterns are consulted.
entryVerdictOwnRuleFirst(path, isDir, currentRule, dirRules, spec) ==
  LET name == Spelling[Last(path)]
      relEntryPath == RelPath(path)
      ext == TrimDot(Ext(name))
      isForced == forceIncluded(name, relEntryPath, currentRule)
      matched == matcherMatch(spec, path)
  IN IF shouldAlwaysExclude(name) THEN "always_exclude"
     ELSE IF /\ isDir
             /\ HasKey(dirRules, relEntryPath)
             /\ Lookup(dirRules, relEntryPath).Enabled THEN "recurse"
     ELSE IF userExcluded(name, relEntryPath, currentRule) THEN "exclude"
     ELSE IF isDir
       THEN IF subDirDisabled(dirRules, relEntryPath) THEN "sub_disabled"
            ELSE IF gitignoreSkip(isForced, matched) THEN "ignored"
            ELSE "recurse"
     ELSE IF gitignoreSkip(isForced, matched) THEN "ignored"
     ELSE IF extensionExcluded(isForced, currentRule, ext) THEN "exclude_ext"
     ELSE IF extensionNotAllowed(isForced, currentRule, ext) THEN "not_allowed"
     ELSE "append"

\* walk, lines 65-133: what one loop iteration decides for an entry, in the
\* order of the code.
entryVerdict(path, isDir, currentRule, dirRules, spec) ==
  LET name == Spelling[Last(path)]
      relEntryPath == RelPath(path)
      ext == TrimDot(Ext(name))
      isForced == forceIncluded(name, relEntryPath, currentRule)
      matched == matcherMatch(spec, path)
  IN IF shouldAlwaysExclude(name) THEN "always_exclude"
     ELSE IF userExcluded(name, relEntryPath, currentRule) THEN "exclude"
     ELSE IF isDir
       THEN IF subDirDisabled(dirRules, relEntryPath) THEN "sub_disabled"
            ELSE IF gitignoreSkip(isForced, matched) THEN "ignored"
            ELSE "recurse"
     ELSE IF gitignoreSkip(isForced, matched) THEN "ignored"
     ELSE IF extensionExcluded(isForced, currentRule, ext) THEN "exclude_ext"
     ELSE IF extensionNotAllowed(isForced, currentRule, ext) THEN "not_allowed"
     ELSE "append"

(***************************************************************************)
(* State.                                                                  *)
(***************************************************************************)
VARIABLES
  outFile,    \* the output file runStart creates: Absent or its bytes
  cfg,        \* config.Config: OutputFile and Dirs (the Rule Store)
  ignoreSpec, \* the patterns of the root .gitignore
  faults,     \* the I/O faults of this behaviour
  pc,         \* "idle", "walk" (inside Scan) or "done" (Scan has returned)
  stack,      \* the frames of walk, innermost last
  err,        \* the error being returned up the stack, "nil" when none
  bufWriter,  \* the records held by bufio.Writer
  writer,     \* the records that reached the underlying writer
  result,     \* what Scan returned: "none" before it returns
  trace,      \* what the walk decided, in order: directories and entries
  run,        \* the number of this run of Scan
  prevOut,    \* the output and result of the run before this one
  disc,       \* config.Discover: its arguments, locals and return values
  probe       \* the bytes of the file under classification, NoProbe
              \* when the tree is as TreeFiles gives it

vars ==
  <<outFile, cfg, ignoreSpec, faults, pc, stack, err, bufWriter, writer,
    result, trace, run, prevOut, disc, probe>>

\* The tree as the walk finds it: the project tree, and the output file
\* once runStart has created it in the root.
dirs == TreeDirs

files ==
  LET tree == IF probe = NoProbe THEN TreeFiles
              ELSE (ProbePath :> probe) @@ TreeFiles
  IN IF outFile = Absent THEN tree
     ELSE (<<cfg.OutputFile>> :> outFile) @@ tree

FaultAt(kind, path) == [kind |-> kind, path |-> path] \in faults

Top == stack[Len(stack)]

\* Faulty variant: the caller's loop does not move on after the call.
PopReturnNoAdvance(s) == Front(s)

\* A callee returned nil: the caller's loop continues with its next entry.
PopReturn(s) ==
  IF Len(s) = 1 THEN <<>>
  ELSE [Front(s) EXCEPT ![Len(s) - 1].i = @ + 1]

Advance(s) == [s EXCEPT ![Len(s)].i = @ + 1]

Frame(dir, rule, entries, i, st) ==
  [dir |-> dir, rule |-> rule, entries |-> entries, i |-> i, st |-> st]

DirEvent(dir, rule, verdict) ==
  [kind |-> "dir", path |-> dir, rule |-> rule, verdict |-> verdict]

EntryEvent(path, rule, verdict) ==
  [kind |-> "entry", path |-> path, rule |-> rule, verdict |-> verdict]

\* The names of the children of a directory.
ChildNames(d) ==
  {Last(p) : p \in {q \in dirs \cup DOMAIN files :
                      Len(q) = Len(d) + 1 /\ Front(q) = d}}

RECURSIVE SortNames(_)
SortNames(S) ==
  IF S = {} THEN <<>>
  ELSE LET m == CHOOSE x \in S : \A y \in S \ {x} : StrLess(Spelling[x], Spelling[y])
       IN <<m>> \o SortNames(S \ {m})

RECURSIVE Reverse(_)
Reverse(s) == IF s = <<>> THEN <<>> ELSE Append(Reverse(Tail(s)), Head(s))

\* Faulty variant: the listing is in descending order.
ReadDirDescending(d) == {Reverse(SortNames(ChildNames(d)))}

\* Faulty variant: a listing in whatever order the directory holds its
\* entries.
ReadDirUnsorted(d) == {SortNames(ChildNames(d)), Reverse(SortNames(ChildNames(d)))}

\* os.ReadDir: the listings a successful call can return, sorted by name.
ReadDir(d) == {SortNames(ChildNames(d))}

\* appendFileContent: the verdict, the error returned and the record written
\* for a file.
appendFileContent(path) ==
  LET bytes == files[path]
  IN IF FaultAt("open", path) \/ FaultAt("read", path)
       THEN [verdict |-> "unreadable", err |-> "nil", recs |-> <<>>]
     ELSE IF IsBinary(bytes)
       THEN [verdict |-> "binary", err |-> "nil", recs |-> <<>>]
     ELSE IF FaultAt("reopen", path)
       THEN [verdict |-> "open_error", err |-> "open", recs |-> <<>>]
     ELSE IF FaultAt("copy", path)
       THEN [verdict |-> "copy_error", err |-> "copy",
             recs |-> <<[path |-> path, body |-> SubSeq(bytes, 1, Min(CopiedBeforeFault, Len(bytes))),
                         closed |-> FALSE]>>]
     ELSE [verdict |-> "added", err |-> "nil",
           recs |-> <<[path |-> path, body |-> bytes, closed |-> TRUE]>>]

\* Discover before it is called: whether an existing configuration is
\* passed (existingCfg != nil), and that configuration; calls counts the
\* calls of Discover.
DiscoverIdle(given, existing) ==
  [pc |-> "idle", given |-> given, input |-> existing, existing |-> existing,
   cfg |-> DefaultConfig, entries |-> <<>>, i |-> 0, ret |-> "none",
   err |-> "nil", calls |-> 1]

\* The ASCII codes of the characters of Alphabet, in its order.
AsciiCodes ==
  <<42, 46, 47, 63, 68, 77, 78, 97, 98, 99, 100, 101, 102, 103, 104, 105,
    106, 107, 108, 109, 110, 111, 112, 113, 114, 115, 116, 117, 118, 119,
    120, 121, 122>>

StringBytes(str) == [i \in 1..Len(str) |-> AsciiCodes[Code(str[i])]]

\* width of the separator line
SeparatorWidth == 50

\* strings.Repeat("-", 50)
separator == [i \in 1..SeparatorWidth |-> 45]

\* appendFileContent, lines 199-207: the bytes written for a record: the
\* three Fprintf of the header, what io.Copy copied and, when the copy
\* succeeded, the closing "\n\n".
recordBytes(rec) ==
  separator \o <<10>>
  \o <<70, 73, 76, 69, 58, 32>> \o StringBytes(RelPath(rec.path)) \o <<10>>
  \o separator \o <<10, 10>>
  \o rec.body
  \o (IF rec.closed THEN <<10, 10>> ELSE <<>>)

\* The bytes of a sequence of records, as the writer receives them.
RECURSIVE outputBytes(_)
outputBytes(recs) ==
  IF recs = <<>> THEN <<>>
  ELSE recordBytes(Head(recs)) \o outputBytes(Tail(recs))

(***************************************************************************)
(* Init: a project tree, a configuration, a .gitignore and the faults.     *)
(***************************************************************************)
Init ==
  /\ outFile = Absent
  /\ cfg \in Configs
  /\ ignoreSpec \in IgnoreSpecs
  /\ faults \in FaultSets
  /\ pc = "idle"
  /\ stack = <<>>
  /\ err = "nil"
  /\ bufWriter = <<>>
  /\ writer = <<>>
  /\ result = "none"
  /\ trace = <<>>
  /\ run = 1
  /\ prevOut = [writer |-> <<>>, result |-> "none"]
  /\ disc = DiscoverIdle(FALSE, DefaultConfig)
  /\ probe = NoProbe

(***************************************************************************)
(* Scan, lines 17-29: the matcher, the buffered writer, the root rule and  *)
(* the call of walk on the root.                                           *)
(***************************************************************************)
rootRuleOf(dirRules) ==
  IF "." \in DOMAIN dirRules THEN dirRules["."] ELSE DefaultRootRule

ScanBegin ==
  /\ pc' = "walk"
  /\ stack' = <<Frame(<<>>, rootRuleOf(cfg.Dirs), <<>>, 0, "call")>>
  /\ bufWriter' = <<>>
  /\ UNCHANGED <<disc, probe, cfg, ignoreSpec, faults, err, writer, result, trace, run,
                 prevOut>>

\* runStart: os.Create of cfg.OutputFile in the working directory, then Scan
\* on the working directory with that file as the writer.
RunStart ==
  /\ pc = "idle"
  /\ outFile' = <<>>
  /\ ScanBegin

(***************************************************************************)
(* walk.                                                                   *)
(***************************************************************************)
\* Faulty variant: the rule resolved for a directory is stored under the
\* directory's key.
WalkEnterCaching ==
  /\ pc = "walk" /\ stack # <<>> /\ err = "nil" /\ Top.st = "call"
  /\ LET rule == resolveRule(cfg.Dirs, RelPath(Top.dir), Top.rule)
         key == CHOOSE x \in DOMAIN Spelling : Spelling[x] = RelPath(Top.dir)
     IN /\ cfg' = [cfg EXCEPT !.Dirs =
                     [k \in DOMAIN cfg.Dirs \cup {key} |-> 
                        IF k = key THEN rule ELSE cfg.Dirs[k]]]
        /\ IF dirDisabled(rule)
             THEN /\ stack' = PopReturn(stack)
                  /\ trace' = Append(trace, DirEvent(Top.dir, rule, "disabled"))
                  /\ err' = err
           ELSE IF FaultAt("readdir", Top.dir)
             THEN /\ stack' = Front(stack)
                  /\ trace' = Append(trace, DirEvent(Top.dir, rule, "readdir_error"))
                  /\ err' = "readdir"
           ELSE \E entries \in ReadDir(Top.dir) :
                  /\ stack' = [stack EXCEPT ![Len(stack)] =
                                 Frame(Top.dir, rule, entries, 1, "loop")]
                  /\ trace' = Append(trace, DirEvent(Top.dir, rule, "listed"))
                  /\ err' = err
  /\ UNCHANGED <<disc, probe, outFile, ignoreSpec, faults, pc, bufWriter,
                 writer, result, run, prevOut>>

\* Lines 41-62: resolve the rule, check enabled, list the directory.
WalkEnter ==
  /\ pc = "walk" /\ stack # <<>> /\ err = "nil" /\ Top.st = "call"
  /\ LET rule == resolveRule(cfg.Dirs, RelPath(Top.dir), Top.rule)
     IN IF dirDisabled(rule)
          THEN /\ stack' = PopReturn(stack)
               /\ trace' = Append(trace, DirEvent(Top.dir, rule, "disabled"))
               /\ err' = err
        ELSE IF FaultAt("readdir", Top.dir)
          THEN /\ stack' = Front(stack)
               /\ trace' = Append(trace, DirEvent(Top.dir, rule, "readdir_error"))
               /\ err' = "readdir"
        ELSE \E entries \in ReadDir(Top.dir) :
               /\ stack' = [stack EXCEPT ![Len(stack)] =
                              Frame(Top.dir, rule, entries, 1, "loop")]
               /\ trace' = Append(trace, DirEvent(Top.dir, rule, "listed"))
               /\ err' = err
  /\ UNCHANGED <<disc, probe, outFile, cfg, ignoreSpec, faults, pc, bufWriter,
                 writer, result, run, prevOut>>

\* Lines 64-139: one iteration of the loop over the entries.
WalkEntry ==
  /\ pc = "walk" /\ stack # <<>> /\ err = "nil" /\ Top.st = "loop"
  /\ Top.i <= Len(Top.entries)
  /\ LET path == Append(Top.dir, Top.entries[Top.i])
         v == entryVerdict(path, path \in dirs, Top.rule, cfg.Dirs, ignoreSpec)
     IN IF v = "recurse"
          THEN /\ stack' = Append(stack, Frame(path, Top.rule, <<>>, 0, "call"))
               /\ trace' = Append(trace, EntryEvent(path, Top.rule, v))
               /\ UNCHANGED bufWriter
        ELSE IF v = "append"
          THEN LET a == appendFileContent(path)
               IN /\ stack' = Advance(stack)
                  /\ trace' = Append(trace, EntryEvent(path, Top.rule, a.verdict))
                  /\ bufWriter' = bufWriter \o a.recs
        ELSE /\ stack' = Advance(stack)
             /\ trace' = Append(trace, EntryEvent(path, Top.rule, v))
             /\ UNCHANGED bufWriter
  /\ UNCHANGED <<disc, probe, outFile, cfg, ignoreSpec, faults, pc, err, writer,
                 result, run, prevOut>>

\* Line 140: the loop is over, walk returns nil.
WalkReturn ==
  /\ pc = "walk" /\ stack # <<>> /\ err = "nil" /\ Top.st = "loop"
  /\ Top.i > Len(Top.entries)
  /\ stack' = PopReturn(stack)
  /\ UNCHANGED <<disc, probe, outFile, cfg, ignoreSpec, faults, pc, err,
                 bufWriter, writer, result, trace, run, prevOut>>

\* Faulty variant: the caller drops the error and goes on with its loop.
WalkFailSwallowed ==
  /\ pc = "walk" /\ stack # <<>> /\ err # "nil"
  /\ stack' = PopReturn(stack)
  /\ err' = "nil"
  /\ UNCHANGED <<disc, probe, outFile, cfg, ignoreSpec, faults, pc, bufWriter, writer,
                 result, trace, run, prevOut>>

\* Lines 104-106: the recursive call failed, walk returns its error.
WalkFail ==
  /\ pc = "walk" /\ stack # <<>> /\ err # "nil"
  /\ stack' = Front(stack)
  /\ UNCHANGED <<disc, probe, outFile, cfg, ignoreSpec, faults, pc, err,
                 bufWriter, writer, result, trace, run, prevOut>>

\* What the deferred bufWriter.Flush passes to the writer.
Flush(w, buf) == w \o buf

\* Scan, lines 20 and 29: walk has returned; the deferred Flush runs and Scan
\* returns walk's error.  The writer is the output file of runStart.
ScanReturn ==
  /\ pc = "walk" /\ stack = <<>>
  /\ writer' = Flush(writer, bufWriter)
  /\ bufWriter' = <<>>
  /\ result' = err
  /\ pc' = "done"
  /\ outFile' = IF writer' # <<>> THEN TextBytes ELSE outFile
  /\ UNCHANGED <<disc, probe, cfg, ignoreSpec, faults, stack, err, trace, run,
                 prevOut>>

\* The same command is run again on the tree as the previous run found it.
Rescan ==
  /\ pc = "done" /\ run < MaxRuns
  /\ prevOut' = [writer |-> writer, result |-> result]
  /\ run' = run + 1
  /\ pc' = "idle"
  /\ writer' = <<>>
  /\ result' = "none"
  /\ err' = "nil"
  /\ trace' = <<>>
  /\ UNCHANGED <<disc, probe, outFile, cfg, ignoreSpec, faults, stack, bufWriter>>

Next ==
  \/ RunStart
  \/ WalkEnter
  \/ WalkEntry
  \/ WalkReturn
  \/ WalkFail
  \/ ScanReturn

Spec == Init /\ [][Next]_vars

\* Scan over a tree in which any one directory may fail to list.
UnlistableChoices == {[kind |-> "readdir", path |-> d] : d \in TreeDirs}

UnlistableSets ==
  {F \in SUBSET UnlistableChoices : Cardinality(F) <= MaxFaults}

InitUnlistable ==
  /\ outFile = Absent
  /\ cfg \in Configs
  /\ ignoreSpec \in IgnoreSpecs
  /\ faults \in UnlistableSets
  /\ pc = "idle"
  /\ stack = <<>>
  /\ err = "nil"
  /\ bufWriter = <<>>
  /\ writer = <<>>
  /\ result = "none"
  /\ trace = <<>>
  /\ run = 1
  /\ prevOut = [writer |-> <<>>, result |-> "none"]
  /\ disc = DiscoverIdle(FALSE, DefaultConfig)
  /\ probe = NoProbe

SpecUnlistable == InitUnlistable /\ [][Next]_vars

NextRerun == Next \/ Rescan

SpecRerun == Init /\ [][NextRerun]_vars

(***************************************************************************)
(* config.Discover and deepScanExtensions.                                 *)
(***************************************************************************)
scanVars ==
  <<outFile, cfg, ignoreSpec, faults, pc, stack, err, bufWriter, writer,
    result, trace, run, prevOut, probe>>

\* The string with the characters s.
Unspell(s) == CHOOSE x \in DOMAIN Spelling : Spelling[x] = s

\* deepScanExtensions, lines 105-111: what a file name adds to extMap.
extensionOf(name) ==
  LET ext == Ext(Spelling[name])
  IN IF Len(ext) > 1 THEN {Unspell(TrimDot(ext))} ELSE {}

\* deepScanExtensions, lines 93-95: a directory named .git is skipped.  The
\* start path of the whole-tree scan is the working directory itself.
isGitDir(path) == path \in dirs /\ path # <<>> /\ Last(path) = ".git"

\* deepScanExtensions, lines 98-103: the matcher skips the path.
scanIgnored(path, spec) == path # <<>> /\ matcherMatch(spec, path)

\* filepath.WalkDir with the callback of deepScanExtensions, lines 87-113:
\* the keys of extMap after the walk of path.  A directory that cannot be
\* read is reported to the callback, which returns nil, and has no entries.
RECURSIVE walkDir(_, _)
walkDir(path, spec) ==
  IF isGitDir(path) THEN {}
  ELSE IF scanIgnored(path, spec) THEN {}
  ELSE IF path \notin dirs THEN extensionOf(Last(path))
  ELSE IF FaultAt("readdir", path) THEN {}
  ELSE UNION {walkDir(Append(path, n), spec) : n \in ChildNames(path)}

\* deepScanExtensions, lines 115-119: the slices a range over extMap can
\* build; the order of a map range is not specified.
ExtLists(S) == {SortNames(S), Reverse(SortNames(S))}

\* Faulty variant: only the files directly in startPath are looked at.
deepScanExtensionsShallow(startPath, spec) ==
  ExtLists(UNION {extensionOf(n) :
                    n \in {m \in ChildNames(startPath) :
                             Append(startPath, m) \notin dirs}})

deepScanExtensions(startPath, spec) == ExtLists(walkDir(startPath, spec))

\* cfg.Dirs[key] = rule
Put(dirRules, key, rule) ==
  [k \in DOMAIN dirRules \cup {key} |-> IF k = key THEN rule ELSE dirRules[k]]

\* Faulty variant: a root rule without extensions is built anew.
discoverRootRebuild(dirRules, rootExtensions) ==
  IF "." \in DOMAIN dirRules /\ Len(dirRules["."].Extensions) > 0
    THEN dirRules
    ELSE Put(dirRules, ".", DirRule(TRUE, rootExtensions, <<>>, <<>>, <<>>))

\* Faulty variant: an existing root rule is given the scanned extensions it
\* does not list yet, in place of its list.
discoverRootOnlyNew(dirRules, rootExtensions) ==
  IF "." \in DOMAIN dirRules
    THEN LET old == dirRules["."].Extensions
             new == SelectSeq(rootExtensions,
                              LAMBDA x : \A i \in 1..Len(old) : old[i] # x)
         IN Put(dirRules, ".", [dirRules["."] EXCEPT !.Extensions = new])
    ELSE Put(dirRules, ".", DirRule(TRUE, rootExtensions, <<>>, <<>>, <<>>))

\* Faulty variant: the root rule's extensions are always rewritten.
discoverRootOverwrite(dirRules, rootExtensions) ==
  IF "." \in DOMAIN dirRules
    THEN Put(dirRules, ".", [dirRules["."] EXCEPT !.Extensions = rootExtensions])
    ELSE Put(dirRules, ".", DirRule(TRUE, rootExtensions, <<>>, <<>>, <<>>))

\* Discover, lines 30-42: the root rule.
discoverRoot(dirRules, rootExtensions) ==
  IF "." \in DOMAIN dirRules
    THEN IF Len(dirRules["."].Extensions) = 0
           THEN Put(dirRules, ".", [dirRules["."] EXCEPT !.Extensions = rootExtensions])
           ELSE dirRules
    ELSE Put(dirRules, ".", DirRule(TRUE, rootExtensions, <<>>, <<>>, <<>>))

\* Faulty variant: the matcher is not asked.
discoverVerdictNoMatcher(name, dirRules, spec) ==
  IF <<name>> \notin dirs \/ name = ".git" THEN "skip"
  ELSE IF name \in DOMAIN dirRules THEN "exists"
  ELSE "add"

\* Discover, lines 51-68: what the loop decides for an entry of the root.
discoverVerdict(name, dirRules, spec) ==
  IF <<name>> \notin dirs \/ name = ".git" THEN "skip"
  ELSE IF matcherMatch(spec, <<name>>) THEN "ignored"
  ELSE IF name \in DOMAIN dirRules THEN "exists"
  ELSE "add"

\* A write to cfg.Dirs: cfg is a copy of *existingCfg, whose Dirs is the
\* same map, so the caller's configuration sees the write too.
WriteDirs(d, store) ==
  [d EXCEPT !.cfg.Dirs = store,
            !.existing.Dirs = IF d.given THEN store ELSE @]

\* Lines 15-42: cfg, the matcher, the whole-tree scan and the root rule.
DiscoverBegin ==
  /\ disc.pc = "idle"
  /\ \E rootExtensions \in deepScanExtensions(<<>>, ignoreSpec) :
       LET cfg0 == IF disc.given THEN disc.existing ELSE DefaultConfig
       IN disc' = WriteDirs([disc EXCEPT !.pc = "list", !.cfg = cfg0],
                            discoverRoot(cfg0.Dirs, rootExtensions))
  /\ UNCHANGED scanVars

\* Lines 45-48: the listing of the root; its failure ends Discover.
DiscoverList ==
  /\ disc.pc = "list"
  /\ IF FaultAt("readdir", <<>>)
       THEN disc' = [disc EXCEPT !.pc = "done", !.ret = "nil", !.err = "readdir"]
       ELSE \E entries \in ReadDir(<<>>) :
              disc' = [disc EXCEPT !.pc = "loop", !.entries = entries, !.i = 1]
  /\ UNCHANGED scanVars

\* Faulty variant: an error met while scanning a new directory ends
\* Discover.
DiscoverEntryScanFatal ==
  /\ disc.pc = "loop"
  /\ disc.i <= Len(disc.entries)
  /\ LET name == disc.entries[disc.i]
          next == [disc EXCEPT !.i = @ + 1]
     IN IF discoverVerdict(name, disc.cfg.Dirs, ignoreSpec) = "add"
          THEN IF \E f \in faults : SubSeq(f.path, 1, 1) = <<name>>
                 THEN disc' = [disc EXCEPT !.pc = "done", !.ret = "nil",
                                           !.err = "readdir"]
                 ELSE \E dirExtensions \in deepScanExtensions(<<name>>, ignoreSpec) :
                        disc' = WriteDirs(next,
                                  Put(disc.cfg.Dirs, name,
                                      DirRule(TRUE, dirExtensions, <<>>, <<>>, <<>>)))
          ELSE disc' = next
  /\ UNCHANGED scanVars

\* Lines 50-78: one iteration of the loop over the entries of the root.
DiscoverEntry ==
  /\ disc.pc = "loop"
  /\ disc.i <= Len(disc.entries)
  /\ LET name == disc.entries[disc.i]
          next == [disc EXCEPT !.i = @ + 1]
     IN IF discoverVerdict(name, disc.cfg.Dirs, ignoreSpec) = "add"
          THEN \E dirExtensions \in deepScanExtensions(<<name>>, ignoreSpec) :
                 disc' = WriteDirs(next,
                           Put(disc.cfg.Dirs, name,
                               DirRule(TRUE, dirExtensions, <<>>, <<>>, <<>>)))
          ELSE disc' = next
  /\ UNCHANGED scanVars

\* Line 80: Discover returns &cfg and no error.
DiscoverReturn ==
  /\ disc.pc = "loop"
  /\ disc.i > Len(disc.entries)
  /\ disc' = [disc EXCEPT !.pc = "done", !.ret = "cfg"]
  /\ UNCHANGED scanVars

\* The faults of a discovery: directories that cannot be listed.
DiscoverFaultChoices ==
  {[kind |-> "readdir", path |-> <<>>],
   [kind |-> "readdir", path |-> <<"pkg", "api">>],
   [kind |-> "readdir", path |-> <<"web">>]}

DiscoverFaultSets ==
  {F \in SUBSET DiscoverFaultChoices : Cardinality(F) <= MaxFaults}

\* Discover is called with nil (runInit) or with a loaded configuration
\* (runScan).
InitDiscover ==
  /\ outFile = Absent
  /\ cfg = DefaultConfig
  /\ ignoreSpec \in IgnoreSpecs
  /\ faults \in DiscoverFaultSets
  /\ pc = "idle"
  /\ stack = <<>>
  /\ err = "nil"
  /\ bufWriter = <<>>
  /\ writer = <<>>
  /\ result = "none"
  /\ trace = <<>>
  /\ run = 1
  /\ prevOut = [writer |-> <<>>, result |-> "none"]
  /\ disc \in {DiscoverIdle(FALSE, DefaultConfig)}
               \cup {DiscoverIdle(TRUE, c) : c \in Configs}
  /\ probe = NoProbe

(***************************************************************************)
(* Classification: Scan over the tree with the bytes of one file varied.   *)
(***************************************************************************)
\* n bytes of ASCII text
Fill(n) == [i \in 1..n |-> 104]

\* File contents around the cases of IsBinary: empty, NUL, one- to
\* four-byte characters, truncated, overlong, surrogate and out-of-range
\* encodings, and files around the size of the buffer.
ProbeSamples ==
  {<<>>, <<0>>, <<104>>, <<104, 0>>, <<128>>, <<255>>,
   <<195, 169>>, <<195>>, <<195, 40>>, <<192, 128>>, <<193, 191>>,
   <<226, 130, 172>>, <<226, 130>>, <<224, 128, 128>>, <<224, 160, 128>>,
   <<237, 160, 128>>, <<237, 159, 191>>,
   <<240, 144, 128, 128>>, <<240, 128, 128, 128>>, <<244, 143, 191, 191>>,
   <<244, 144, 128, 128>>, <<245, 128, 128, 128>>,
   Fill(BinaryBufSize),
   Fill(BinaryBufSize - 1) \o <<0>>,
   Fill(BinaryBufSize) \o <<0>>,
   Fill(BinaryBufSize) \o <<255>>,
   Fill(BinaryBufSize - 2) \o <<195, 169, 104>>,
   Fill(BinaryBufSize - 1) \o <<195, 169>>}

InitBinary ==
  /\ outFile = Absent
  /\ cfg = DefaultConfig
  /\ ignoreSpec = {}
  /\ faults \in FaultSets
  /\ pc = "idle"
  /\ stack = <<>>
  /\ err = "nil"
  /\ bufWriter = <<>>
  /\ writer = <<>>
  /\ result = "none"
  /\ trace = <<>>
  /\ run = 1
  /\ prevOut = [writer |-> <<>>, result |-> "none"]
  /\ disc = DiscoverIdle(FALSE, DefaultConfig)
  /\ probe \in ProbeSamples

SpecBinary == InitBinary /\ [][Next]_vars

NextDiscover ==
  \/ DiscoverBegin
  \/ DiscoverList
  \/ DiscoverEntry
  \/ DiscoverReturn

SpecDiscover == InitDiscover /\ [][NextDiscover]_vars

\* Discover is called again, on the configuration it returned, over the
\* same tree.
Rediscover ==
  /\ disc.pc = "done" /\ disc.ret = "cfg"
  /\ disc.calls < MaxRuns
  /\ disc' = [DiscoverIdle(TRUE, disc.cfg) EXCEPT !.calls = disc.calls + 1]
  /\ UNCHANGED scanVars

NextRediscover ==
  \/ NextDiscover
  \/ Rediscover

SpecRediscover == InitDiscover /\ [][NextRediscover]_vars

(***************************************************************************)
(* Vocabulary of the properties.                                           *)
(***************************************************************************)
Done == pc = "done"

\* Everything appended so far, flushed or still buffered.
Output == writer \o bufWriter

EmittedPaths == {Output[i].path : i \in 1..Len(Output)}

DirEvents == {trace[i] : i \in {j \in 1..Len(trace) : trace[j].kind = "dir"}}

EntryEvents == {trace[i] : i \in {j \in 1..Len(trace) : trace[j].kind = "entry"}}

\* The directories walk was called on, and those it listed.
Called == {e.path : e \in DirEvents}
Listed == {e.path : e \in {x \in DirEvents : x.verdict = "listed"}}

IsUnder(p, d) == Len(p) > Len(d) /\ SubSeq(p, 1, Len(d)) = d

NameOf(p) == Spelling[Last(p)]

\* What the rule held while an entry was processed says about the entry.
Forced(e) == checkPatternMatch(NameOf(e.path), RelPath(e.path), e.rule.Include)
Excluded(e) == checkPatternMatch(NameOf(e.path), RelPath(e.path), e.rule.Exclude)
Ignored(e) == matcherMatch(ignoreSpec, e.path)
ExtOf(e) == TrimDot(Ext(NameOf(e.path)))
Blocked(e) == contains(e.rule.ExcludeExtensions, ExtOf(e))
Allowed(e) == Len(e.rule.Extensions) = 0 \/ contains(e.rule.Extensions, ExtOf(e))
Reserved(e) == shouldAlwaysExclude(NameOf(e.path))

\* The Rule Store entry of the nearest ancestor-or-self directory that has
\* one, Scan's root default when none has.
RECURSIVE NearestRule(_)
NearestRule(d) ==
  IF HasKey(cfg.Dirs, RelPath(d)) THEN Lookup(cfg.Dirs, RelPath(d))
  ELSE IF d = <<>> THEN DefaultRootRule
  ELSE NearestRule(Front(d))

AppendVerdicts == {"added", "binary", "unreadable", "open_error", "copy_error"}

C2_ExcludeBeatsInclude ==
  Done =>
    \A e \in EntryEvents :
      Excluded(e)
      => /\ e.verdict \in {"always_exclude", "exclude"}
         /\ e.path \notin EmittedPaths
         /\ e.path \notin Called

\* A file and a directory that match both lists have been passed over.
C2_Witness ==
  /\ Done
  /\ \E e \in EntryEvents :
       e.path \notin dirs /\ e.verdict = "exclude" /\ Forced(e)
  /\ \E e \in EntryEvents :
       e.path \in dirs /\ e.verdict = "exclude" /\ Forced(e)

(***************************************************************************)
(* C3.  When Scan has returned: no entry that matches an include pattern   *)
(* of the active rule was skipped as ignored; and every child directory    *)
(* whose own Rule Store entry is disabled was skipped, not entered, also   *)
(* when it matches an include pattern.                                     *)
(***************************************************************************)
C3_ForcedBypassesIgnoreNotDisable ==
  Done =>
    \A e \in EntryEvents :
      /\ Forced(e) => e.verdict # "ignored"
      /\ (/\ e.path \in dirs
          /\ HasKey(cfg.Dirs, RelPath(e.path))
          /\ ~Lookup(cfg.Dirs, RelPath(e.path)).Enabled)
         => /\ e.verdict # "recurse"
            /\ e.path \notin Called

\* A forced, ignore-matched file was emitted, a forced, ignore-matched
\* directory with a disabled entry of its own was skipped.
C3_Witness ==
  /\ Done
  /\ \E e \in EntryEvents :
       /\ Forced(e) /\ Ignored(e)
       /\ e.verdict = "added" /\ e.path \in EmittedPaths
  /\ \E e \in EntryEvents :
       /\ e.path \in dirs /\ Forced(e) /\ Ignored(e)
       /\ e.verdict = "sub_disabled"

(***************************************************************************)
(* C4.  When Scan has returned: a file that matches no include pattern of  *)
(* the active rule and whose extension is missing from a non-empty allow   *)
(* list is not in the output; a file that matches an include pattern was   *)
(* not dropped by the allow list.                                          *)
(***************************************************************************)
C4_AllowList ==
  Done =>
    \A e \in EntryEvents :
      /\ (e.path \notin dirs /\ ~Forced(e) /\ ~Allowed(e))
         => e.path \notin EmittedPaths /\ e.verdict \notin AppendVerdicts
      /\ Forced(e) => e.verdict # "not_allowed"

\* One file was dropped by the allow list and a forced file whose extension
\* the list lacks was emitted.
C4_Witness ==
  /\ Done
  /\ \E e \in EntryEvents : e.verdict = "not_allowed"
  /\ \E e \in EntryEvents :
       /\ Forced(e) /\ ~Allowed(e)
       /\ e.verdict = "added" /\ e.path \in EmittedPaths

(***************************************************************************)
(* C5.  The rule of every frame of walk that is looping over a directory   *)
(* is the Rule Store entry of the nearest ancestor-or-self directory that  *)
(* has one, or Scan's root default; when Scan has returned, the same holds *)
(* of the rule of every directory walk was called on and of the rule every *)
(* entry was processed under.                                              *)
(***************************************************************************)
C5_ActiveRuleIsNearest ==
  /\ \A i \in 1..Len(stack) :
       stack[i].st = "loop" => stack[i].rule = NearestRule(stack[i].dir)
  /\ Done =>
       /\ \A e \in DirEvents : e.rule = NearestRule(e.path)
       /\ \A e \in EntryEvents : e.rule = NearestRule(Front(e.path))

\* The root rule has an allow list, pkg has a rule of its own without one
\* and a file of pkg that the root's list lacks and pkg's rule does not force
\* was emitted; web, which has no rule, was listed under the root's rule
\* after pkg.
C5_Witness ==
  /\ Done
  /\ HasKey(cfg.Dirs, Spelling["."])
  /\ HasKey(cfg.Dirs, Spelling["pkg"])
  /\ Len(Lookup(cfg.Dirs, Spelling["."]).Extensions) > 0
  /\ Len(Lookup(cfg.Dirs, Spelling["pkg"]).Extensions) = 0
  /\ \E e \in EntryEvents :
       /\ Front(e.path) = <<"pkg">>
       /\ ~Forced(e)
       /\ ~contains(Lookup(cfg.Dirs, Spelling["."]).Extensions, ExtOf(e))
       /\ e.verdict = "added" /\ e.path \in EmittedPaths
  /\ \E e \in DirEvents :
       /\ e.path = <<"web">> /\ e.verdict = "listed"
       /\ e.rule = Lookup(cfg.Dirs, Spelling["."])
       /\ e.rule # Lookup(cfg.Dirs, Spelling["pkg"])

(***************************************************************************)
(* C6.  When Scan has returned: a file that neither a reserved name nor an *)
(* exclude pattern removed, and that matches no include pattern, was       *)
(* skipped as ignored if the matcher matches it, else dropped by the block *)
(* list if its extension is on it (on the allow list or not), else dropped *)
(* by a non-empty allow list that lacks its extension, else handed to      *)
(* appendFileContent; a file that matches an include pattern was handed to *)
(* appendFileContent whatever the matcher and the two lists say; and the   *)
(* output holds a record of every file that was added, and of no file      *)
(* that appendFileContent did not start to write.                          *)
(***************************************************************************)
C6_FileChecksInOrder ==
  Done =>
    /\ \A e \in EntryEvents :
         (e.path \notin dirs /\ ~Reserved(e) /\ ~Excluded(e))
         => IF Forced(e) THEN e.verdict \in AppendVerdicts
            ELSE IF Ignored(e) THEN e.verdict = "ignored"
            ELSE IF Blocked(e) THEN e.verdict = "exclude_ext"
            ELSE IF ~Allowed(e) THEN e.verdict = "not_allowed"
            ELSE e.verdict \in AppendVerdicts
    /\ \A e \in EntryEvents :
         e.path \in EmittedPaths <=> e.verdict \in {"added", "copy_error"}

\* A file whose extension is on both lists and a file blocked under an
\* empty allow list were dropped by the block list, and a forced file whose
\* extension is blocked was emitted.
C6_Witness ==
  /\ Done
  /\ \E e \in EntryEvents :
       /\ e.verdict = "exclude_ext"
       /\ contains(e.rule.Extensions, ExtOf(e))
  /\ \E e \in EntryEvents :
       /\ e.verdict = "exclude_ext"
       /\ Len(e.rule.Extensions) = 0
  /\ \E e \in EntryEvents :
       /\ Forced(e) /\ Blocked(e) /\ ~Allowed(e)
       /\ e.verdict = "added" /\ e.path \in EmittedPaths

(***************************************************************************)
(* C7.  When Scan has returned: every entry named .git, textify.yaml or as *)
(* the configured output file (Config.OutputFile) was skipped by the       *)
(* hard-coded check and is not in the output.                              *)
(***************************************************************************)
C7_ReservedNamesSkipped ==
  Done =>
    \A e \in EntryEvents :
      NameOf(e.path) \in {Spelling[".git"], Spelling["textify.yaml"],
                          Spelling[cfg.OutputFile]}
      => e.verdict = "always_exclude" /\ e.path \notin EmittedPaths

(***************************************************************************)
(* C8.  Scenario A: with the store {".": {extensions: [go, md], include:   *)
(* [secret.env]}}, a .gitignore holding *.env and no I/O fault, the output *)
(* of Scan holds main.go, readme.md and secret.env, and not script.py.     *)
(***************************************************************************)
C8_ScenarioA ==
  (/\ Done
   /\ cfg.Dirs = ("." :> RuleScenarioA)
   /\ "*.env" \in ignoreSpec
   /\ faults = {})
  => /\ {<<"main.go">>, <<"readme.md">>, <<"secret.env">>} \subseteq EmittedPaths
     /\ <<"script.py">> \notin EmittedPaths

AppendedPaths ==
  SelectSeq([i \in 1..Len(trace) |->
               IF trace[i].verdict \in {"added", "copy_error"}
                 THEN trace[i].path ELSE <<"">>],
            LAMBDA p : p # <<"">>)

C10_ListingFailureAborts ==
  LET failed == {i \in 1..Len(trace) : trace[i].verdict = "readdir_error"}
  IN /\ \A i \in failed : i = Len(trace)
     /\ failed # {} => err = "readdir"
     /\ (Done /\ failed # {})
        => /\ result = "readdir"
           /\ [i \in 1..Len(writer) |-> writer[i].path] = AppendedPaths
     /\ (Done /\ failed = {}) => result = "nil"

\* Scan returned the listing error of pkg/api; records written before the
\* failure are in the output and files that sort after pkg were never
\* reached.
C10_Witness ==
  /\ Done
  /\ result = "readdir"
  /\ \E i \in 1..Len(trace) :
       trace[i].verdict = "readdir_error" /\ trace[i].path = <<"pkg", "api">>
  /\ <<"pkg", "a.go">> \in EmittedPaths
  /\ \A e \in EntryEvents : e.path # <<"readme.md">>
  /\ Len(writer) >= 2

(***************************************************************************)
(* C11.  When Scan has returned: a file that could not be opened or read,  *)
(* during classification or during the copy of its content, did not make   *)
(* Scan return its error and has nothing in the output, neither a header   *)
(* nor a part of its content.                                              *)
(***************************************************************************)
C11_FailedFileOmitted ==
  Done =>
    \A e \in EntryEvents :
      e.verdict \in {"unreadable", "open_error", "copy_error"}
      => /\ result \notin {"open", "copy"}
         /\ \A i \in 1..Len(writer) : writer[i].path # e.path

(***************************************************************************)
(* Vocabulary of the properties of Discover.                               *)
(***************************************************************************)
\* Discover has returned a configuration.
Returned == disc.pc = "done" /\ disc.ret = "cfg"

\* The Rule Store Discover was given and the one it builds.
InputStore == disc.input.Dirs
Store == disc.cfg.Dirs

ExtSet(rule) == {Spelling[rule.Extensions[i]] : i \in 1..Len(rule.Extensions)}

\* The immediate subdirectories of the root.
TopDirs == {d \in dirs : Len(d) = 1}

\* The files at or below start that a scan from start can see: neither the
\* file nor a directory on the way to it is ignore-matched, no directory on
\* the way is named .git, and every directory on the way can be listed.
SeenFrom(start) ==
  {p \in DOMAIN files :
     /\ IsUnder(p, start)
     /\ \A k \in (Len(start) + 1)..Len(p) :
          /\ ~matcherMatch(ignoreSpec, SubSeq(p, 1, k))
          /\ k < Len(p) => p[k] # ".git"
     /\ \A k \in Len(start)..(Len(p) - 1) :
          ~FaultAt("readdir", SubSeq(p, 1, k))}

\* The extension of a file as filepath.Ext reads it, without the dot.
RawExt(p) == TrimDot(Ext(NameOf(p)))

\* The union of the extensions of the files seen from start.
ExtUnion(start) == {RawExt(p) : p \in {q \in SeenFrom(start) : RawExt(q) # <<>>}}

(***************************************************************************)
(* C12.  From the moment Discover has its configuration: every key of the  *)
(* Rule Store it was given is a key of its store with the rule it had,     *)
(* except that a "." rule whose extensions list was empty may differ in    *)
(* its extensions.                                                         *)
(***************************************************************************)
C12_ExistingRulesKept ==
  disc.pc # "idle" =>
    \A k \in DOMAIN InputStore :
      /\ k \in DOMAIN Store
      /\ IF k = "." /\ Len(InputStore[k].Extensions) = 0
           THEN [Store[k] EXCEPT !.Extensions = <<>>] = InputStore[k]
           ELSE Store[k] = InputStore[k]

\* Discover returned a store; it was given a "." rule with extensions that
\* lack one the tree holds and a rule for pkg without extensions, and it
\* added a rule for web.
C12_Witness ==
  /\ Returned /\ disc.given
  /\ {".", "pkg"} \subseteq DOMAIN InputStore
  /\ Len(InputStore["."].Extensions) > 0
  /\ ExtUnion(<<>>) \ ExtSet(InputStore["."]) # {}
  /\ Len(InputStore["pkg"].Extensions) = 0
  /\ "web" \in DOMAIN Store \ DOMAIN InputStore
  /\ Store["."] = InputStore["."]
  /\ Store["pkg"] = InputStore["pkg"]

(***************************************************************************)
(* C13.  When Discover has returned a store, was given no "." rule or one  *)
(* with an empty extensions list, and no directory failed to list: the     *)
(* extensions of the "." rule are the union, over the files of the whole   *)
(* tree that are not ignore-matched and not under an ignore-matched or     *)
(* .git directory, of the file's extension in lower case without the dot.  *)
(***************************************************************************)
Lower(c) ==
  IF c = "D" THEN "d" ELSE IF c = "M" THEN "m" ELSE IF c = "N" THEN "n" ELSE c

ToLower(str) == [i \in 1..Len(str) |-> Lower(str[i])]

C13_RootExtensionsLowerCased ==
  (/\ Returned
   /\ faults = {}
   /\ "." \in DOMAIN InputStore => Len(InputStore["."].Extensions) = 0)
  => ExtSet(Store["."]) = {ToLower(x) : x \in ExtUnion(<<>>)}

C15_IgnoredDirMarkedDisabled ==
  (Returned /\ ~disc.given) =>
    \A d \in TopDirs :
      matcherMatch(ignoreSpec, d)
      => d[1] \in DOMAIN Store /\ ~Store[d[1]].Enabled

(***************************************************************************)
(* C16.  When Discover has returned a store: the store has a "." entry; *)
(* every immediate subdirectory of the root that is not .git, not          *)
(* ignore-matched and was not a key already has an enabled entry whose     *)
(* extensions are the union of the extensions (as filepath.Ext reads them) *)
(* of the files seen from that subdirectory; and every key that was added  *)
(* is "." or an immediate subdirectory of the root.                        *)
(***************************************************************************)
C16_DepthOneRules ==
  Returned =>
    /\ "." \in DOMAIN Store
    /\ \A d \in TopDirs :
         (/\ d[1] # ".git"
          /\ ~matcherMatch(ignoreSpec, d)
          /\ d[1] \notin DOMAIN InputStore)
         => /\ d[1] \in DOMAIN Store
            /\ Store[d[1]].Enabled
            /\ ExtSet(Store[d[1]]) = ExtUnion(d)
            /\ Len(Store[d[1]].Extensions) = Cardinality(ExtUnion(d))
    /\ \A k \in DOMAIN Store \ DOMAIN InputStore :
         k = "." \/ <<k>> \in TopDirs

\* Discover returned rules for pkg and web: pkg's extensions include one
\* that only pkg/api holds and lack one that only the root holds, and the
\* store has no key for pkg/api.
C16_Witness ==
  /\ Returned
  /\ {"pkg", "web"} \subseteq DOMAIN Store \ DOMAIN InputStore
  /\ Spelling["txt"] \in ExtSet(Store["pkg"])
  /\ Spelling["py"] \notin ExtSet(Store["pkg"])
  /\ Spelling["py"] \in ExtUnion(<<>>)
  /\ "pkg/api" \notin DOMAIN Store

(***************************************************************************)
(* C17.  When Discover has returned a store, was given no "." rule or one  *)
(* with an empty extensions list, and no directory failed to list: every   *)
(* extension of the "." rule comes from a file the scan saw whose name has *)
(* more than one character after its last "." and a last "." that is not   *)
(* the leading character of a name without another ".".                    *)
(***************************************************************************)
HasExtension(name) ==
  LET i == LastIndex(name, ".")
  IN i > 1 /\ Len(name) - i > 1

C17_DotfileHasNoExtension ==
  (/\ Returned
   /\ faults = {}
   /\ "." \in DOMAIN InputStore => Len(InputStore["."].Extensions) = 0)
  => \A x \in ExtSet(Store["."]) :
       \E p \in SeenFrom(<<>>) : HasExtension(NameOf(p)) /\ RawExt(p) = x

(***************************************************************************)
(* C18.  Discover holds an error only if the root could not be listed, and *)
(* then returns no store; when it is over and the root could be listed it  *)
(* has returned a store and no error, whatever else could not be read; and *)
(* every extension of a rule it added comes from a file that could be      *)
(* reached through directories that could be listed.                       *)
(***************************************************************************)
C18_OnlyRootListingFatal ==
  /\ disc.err # "nil" => FaultAt("readdir", <<>>) /\ disc.ret = "nil"
  /\ disc.pc = "done" =>
       IF FaultAt("readdir", <<>>)
         THEN disc.ret = "nil" /\ disc.err = "readdir"
         ELSE disc.ret = "cfg" /\ disc.err = "nil"
  /\ Returned =>
       \A d \in TopDirs :
         d[1] \in DOMAIN Store \ DOMAIN InputStore
         => ExtSet(Store[d[1]]) \subseteq ExtUnion(d)

\* Discover returned a store although web could not be listed; the rule
\* it added for web has no extension.
C18_Witness ==
  /\ Returned
  /\ FaultAt("readdir", <<"web">>)
  /\ "web" \in DOMAIN Store \ DOMAIN InputStore
  /\ Store["web"].Extensions = <<>>
  /\ disc.err = "nil"

(***************************************************************************)
(* C19.  When Scan has returned: a file that was classified was classified *)
(* binary exactly when its first min(512, size) bytes hold a NUL byte or   *)
(* are not well-formed UTF-8 (a sequence of shortest-form encodings of     *)
(* Unicode scalar values); an empty file was not classified binary; a file *)
(* classified binary has no record in the output, and Scan returned no     *)
(* error unless a directory could not be listed.                           *)
(***************************************************************************)
\* The code point a sequence of one to four bytes stands for.
Decode(u) ==
  IF Len(u) = 1 THEN u[1]
  ELSE IF Len(u) = 2 THEN (u[1] - 192) * 64 + (u[2] - 128)
  ELSE IF Len(u) = 3 THEN (u[1] - 224) * 4096 + (u[2] - 128) * 64 + (u[3] - 128)
  ELSE (u[1] - 240) * 262144 + (u[2] - 128) * 4096 + (u[3] - 128) * 64
       + (u[4] - 128)

\* The UTF-8 encoding of a code point.
Encode(cp) ==
  IF cp < 128 THEN <<cp>>
  ELSE IF cp < 2048 THEN <<192 + (cp \div 64), 128 + (cp % 64)>>
  ELSE IF cp < 65536
    THEN <<224 + (cp \div 4096), 128 + ((cp \div 64) % 64), 128 + (cp % 64)>>
  ELSE <<240 + (cp \div 262144), 128 + ((cp \div 4096) % 64),
         128 + ((cp \div 64) % 64), 128 + (cp % 64)>>

IsScalar(cp) == cp \in 0..1114111 /\ cp \notin 55296..57343

\* b[from..] is a sequence of encodings of scalar values: a run of
\* one-byte encodings, then nothing or a longer one and the rest.
RECURSIVE WellFormedFrom(_, _)
WellFormedFrom(b, from) ==
  LET i == FirstNonAscii(b, from)
  IN \/ i > Len(b)
     \/ \E k \in 2..4 :
          /\ i + k - 1 <= Len(b)
          /\ LET u == SubSeq(b, i, i + k - 1)
             IN /\ IsScalar(Decode(u))
                /\ Encode(Decode(u)) = u
          /\ WellFormedFrom(b, i + k)

WellFormed(b) == WellFormedFrom(b, 1)

C19_BinaryClassification ==
  Done =>
    \A e \in EntryEvents :
      e.verdict \in {"binary", "added", "open_error", "copy_error"}
      => LET bytes == files[e.path]
             first == SubSeq(bytes, 1, Min(512, Len(bytes)))
             binary == \/ \E i \in 1..Len(first) : first[i] = 0
                       \/ ~WellFormed(first)
         IN /\ e.verdict = "binary" <=> binary
            /\ Len(bytes) = 0 => e.verdict # "binary"
            /\ e.verdict = "binary"
               => /\ e.path \notin EmittedPaths
                  /\ (result = "nil" \/ \E f \in faults : f.kind = "readdir")

\* Scan returned without error; a file with a NUL byte was left out, an
\* empty file was added, and so was a file whose only NUL byte lies beyond
\* the first 512 bytes.
C19_Witness ==
  /\ Done /\ result = "nil"
  /\ \E e \in EntryEvents : e.verdict = "binary" /\ e.path \notin EmittedPaths
  /\ \E e \in EntryEvents : e.verdict = "added" /\ files[e.path] = <<>>
  /\ \E e \in EntryEvents :
       /\ e.path = ProbePath /\ e.verdict = "added"
       /\ Len(probe) > 512
       /\ \E i \in 1..Len(probe) : probe[i] = 0

(***************************************************************************)
(* C20.  When Scan has returned: the bytes the writer received are the     *)
(* concatenation, over the paths of the output in order, of: a line of 50  *)
(* '-', the line "FILE: " and the names of the path joined by '/', a line  *)
(* of 50 '-', an empty line, the bytes the file had when it was read, and  *)
(* two newlines.                                                           *)
(***************************************************************************)
Line(b) == b \o <<10>>

Dashes == [i \in 1..50 |-> 45]

RECURSIVE SlashJoined(_)
SlashJoined(path) ==
  IF Len(path) = 1 THEN StringBytes(Spelling[path[1]])
  ELSE SlashJoined(Front(path)) \o <<47>> \o StringBytes(Spelling[Last(path)])

\* The output file is empty while Scan reads the tree.
BytesWhenRead(path) == IF path = <<cfg.OutputFile>> THEN <<>> ELSE files[path]

FormatRecord(path) ==
  Line(Dashes)
  \o Line(<<70, 73, 76, 69, 58, 32>> \o SlashJoined(path))
  \o Line(Dashes)
  \o Line(<<>>)
  \o BytesWhenRead(path)
  \o <<10, 10>>

RECURSIVE FormatAll(_)
FormatAll(paths) ==
  IF paths = <<>> THEN <<>>
  ELSE FormatRecord(Head(paths)) \o FormatAll(Tail(paths))

C20_RecordFormat ==
  Done =>
    outputBytes(writer) = FormatAll([i \in 1..Len(writer) |-> writer[i].path])

(***************************************************************************)
(* C21.  When Scan has returned: the entries were processed, and the       *)
(* records appended, in depth-first order with the children of a directory *)
(* in byte order of their names: of two entries the earlier one is an      *)
(* ancestor of the later or precedes it at the first name where their      *)
(* paths differ; the paths of the output are those of the files that were  *)
(* written, in the order they were processed, and none appears twice.      *)
(***************************************************************************)
\* p comes before q in a depth-first traversal that lists names in byte
\* order: p is a proper prefix of q, or p has the smaller name at the first
\* place where they differ.
RECURSIVE PathBefore(_, _)
PathBefore(p, q) ==
  IF q = <<>> THEN FALSE
  ELSE IF p = <<>> THEN TRUE
  ELSE IF Head(p) = Head(q) THEN PathBefore(Tail(p), Tail(q))
  ELSE StrLess(Spelling[Head(p)], Spelling[Head(q)])

EntryPaths ==
  SelectSeq([i \in 1..Len(trace) |->
               IF trace[i].kind = "entry" THEN trace[i].path ELSE <<"">>],
            LAMBDA p : p # <<"">>)

WriterPaths == [i \in 1..Len(writer) |-> writer[i].path]

C21_DepthFirstOrder ==
  Done =>
    /\ \A i \in 1..Len(EntryPaths) : \A j \in (i + 1)..Len(EntryPaths) :
         PathBefore(EntryPaths[i], EntryPaths[j])
    /\ \A i \in 1..Len(WriterPaths) : \A j \in (i + 1)..Len(WriterPaths) :
         PathBefore(WriterPaths[i], WriterPaths[j])
    /\ WriterPaths = AppendedPaths

\* The output holds a file of the root, then files of pkg and of pkg/api,
\* then a later file of the root and a file of web.
C21_Witness ==
  /\ Done
  /\ \E i, j, k, l, m \in 1..Len(writer) :
       /\ i < j /\ j < k /\ k < l /\ l < m
       /\ writer[i].path = <<"main.go">>
       /\ writer[j].path = <<"pkg", "a.go">>
       /\ writer[k].path = <<"pkg", "api", "c.go">>
       /\ writer[l].path = <<"readme.md">>
       /\ writer[m].path = <<"web", "w.md">>

(***************************************************************************)
(* C22.  No step of Scan, from its call to its return, with or without an  *)
(* error, changes the Rule Store: its keys and the rule of every key stay  *)
(* as they are.                                                            *)
(***************************************************************************)
C22_RuleStoreReadOnly ==
  [][/\ DOMAIN cfg'.Dirs = DOMAIN cfg.Dirs
     /\ \A k \in DOMAIN cfg.Dirs : cfg'.Dirs[k] = cfg.Dirs[k]]_vars

\* Scan has returned an error after it walked directories that have no
\* rule of their own under a store with two keys.
C22_Witness ==
  /\ Done
  /\ result = "readdir"
  /\ Cardinality(DOMAIN cfg.Dirs) = 2
  /\ \E e \in DirEvents : e.verdict = "listed" /\ ~HasKey(cfg.Dirs, RelPath(e.path))

(***************************************************************************)
(* C23.  The walk terminates: until Scan has returned it has a next step,  *)
(* and every step decreases a measure of the work left (the directories    *)
(* and entries of the tree not yet met, the frames of walk and the return  *)
(* of Scan) that is never negative.  walk is called on no                  *)
(* directory twice; and when Scan has returned, the steps that concern a   *)
(* directory or what lies below it are consecutive: once the walk has left *)
(* a subtree it does not come back to it.                                  *)
(***************************************************************************)
\* The directories and entries a walk of the tree can meet: each directory
\* as the argument of walk and as an entry, each file as an entry, and the
\* output file.
TreeSize == 2 * Cardinality(TreeDirs) + Cardinality(DOMAIN TreeFiles) + 1

WorkLeft ==
  3 * (TreeSize - Len(trace)) + Len(stack)
  + (IF pc = "idle" THEN 3 ELSE IF pc = "walk" THEN 1 ELSE 0)

AtOrUnder(p, d) == Len(p) >= Len(d) /\ SubSeq(p, 1, Len(d)) = d

StepsWithin(d) == {i \in 1..Len(trace) : AtOrUnder(trace[i].path, d)}

Consecutive(I) ==
  \A i \in I : \A j \in I :
    i < j => Cardinality({k \in I : i <= k /\ k <= j}) = j - i + 1

EnteredOnce ==
  \A i \in 1..Len(trace) : \A j \in (i + 1)..Len(trace) :
    (trace[i].kind = "dir" /\ trace[j].kind = "dir")
    => trace[i].path # trace[j].path

\* Scan has a next step: it is about to be called, is about to return, or
\* its innermost frame is returning an error, entering its directory or in
\* its loop.
HasStep ==
  \/ pc = "idle"
  \/ pc = "walk" /\ stack = <<>>
  \/ pc = "walk" /\ stack # <<>> /\ err # "nil"
  \/ pc = "walk" /\ stack # <<>> /\ err = "nil" /\ Top.st \in {"call", "loop"}

C23_WalkTerminates ==
  /\ [](~Done => HasStep)
  /\ [](WorkLeft >= 0)
  /\ [][WorkLeft' < WorkLeft]_vars
  /\ []EnteredOnce
  /\ [](Done => \A d \in dirs : Consecutive(StepsWithin(d)))

\* Scan has returned after it listed the root, pkg, pkg/api and web.
C23_Witness ==
  /\ Done
  /\ {<<>>, <<"pkg">>, <<"pkg", "api">>, <<"web">>} \subseteq Listed

(***************************************************************************)
(* C24.  When Scan has returned: walk was not called on a child directory  *)
(* that matches an exclude pattern of the rule active in its parent, and   *)
(* no entry below it was processed or written, whatever rule the Rule      *)
(* Store holds for the directory and whatever include pattern an entry     *)
(* below it matches.                                                       *)
(***************************************************************************)
C24_ExcludedDirNeverEntered ==
  Done =>
    \A e \in EntryEvents :
      (e.path \in dirs /\ Excluded(e))
      => /\ \A x \in DirEvents : ~AtOrUnder(x.path, e.path)
         /\ \A x \in EntryEvents : ~IsUnder(x.path, e.path)
         /\ \A p \in EmittedPaths : ~IsUnder(p, e.path)

\* pkg/api matches an exclude pattern of the rule active in pkg and was
\* passed over, although the store holds an enabled rule for pkg/api whose
\* include patterns match a file of pkg/api.
C24_Witness ==
  /\ Done
  /\ \E e \in EntryEvents :
       e.path = <<"pkg", "api">> /\ Excluded(e) /\ e.verdict = "exclude"
  /\ HasKey(cfg.Dirs, Spelling["pkg/api"])
  /\ LET own == Lookup(cfg.Dirs, Spelling["pkg/api"])
     IN /\ own.Enabled
        /\ checkPatternMatch(Spelling["c.go"], RelPath(<<"pkg", "api", "c.go">>),
                             own.Include)

(***************************************************************************)
(* C25.  When Scan has returned: a file that is not empty, whose whole     *)
(* content is well-formed UTF-8 and holds no NUL byte, was not classified  *)
(* as binary, whatever its length.                                         *)
(***************************************************************************)
C25_ValidTextNeverBinary ==
  Done =>
    \A e \in EntryEvents :
      LET bytes == files[e.path]
      IN (/\ e.path \in DOMAIN files
          /\ e.verdict \in {"binary", "added", "open_error", "copy_error"}
          /\ Len(bytes) > 0
          /\ WellFormed(bytes)
          /\ \A i \in 1..Len(bytes) : bytes[i] # 0)
         => e.verdict # "binary"

(***************************************************************************)
(* C26.  When Scan has returned: in a directory that the matcher matches   *)
(* and that was entered because it matches an include pattern, a child     *)
(* that no reserved name and no exclude pattern removed and that matches   *)
(* no include pattern of the rule active in that directory was skipped as  *)
(* ignored if the matcher matches it, and a file among them was dropped by *)
(* the block list or by the allow list as anywhere else; a child that does *)
(* match an include pattern of that rule was not skipped as ignored, and   *)
(* was handed to appendFileContent if it is a file.                        *)
(***************************************************************************)
EnteredAsForced ==
  {d.path : d \in {e \in EntryEvents :
                     /\ e.path \in dirs /\ e.verdict = "recurse"
                     /\ Forced(e) /\ Ignored(e)}}

C26_ForceNotInherited ==
  Done =>
    \A e \in EntryEvents :
      (Front(e.path) \in EnteredAsForced /\ ~Reserved(e) /\ ~Excluded(e))
      => IF e.path \in dirs
           THEN IF subDirDisabled(cfg.Dirs, RelPath(e.path))
                  THEN e.verdict = "sub_disabled"
                ELSE IF Forced(e) THEN e.verdict = "recurse"
                ELSE IF Ignored(e) THEN e.verdict = "ignored"
                ELSE e.verdict = "recurse"
         ELSE IF Forced(e) THEN e.verdict \in AppendVerdicts
         ELSE IF Ignored(e)
           THEN e.verdict = "ignored" /\ e.path \notin EmittedPaths
         ELSE IF Blocked(e)
           THEN e.verdict = "exclude_ext" /\ e.path \notin EmittedPaths
         ELSE IF ~Allowed(e)
           THEN e.verdict = "not_allowed" /\ e.path \notin EmittedPaths
         ELSE e.verdict \in AppendVerdicts

\* pkg is ignore-matched and was entered because the root rule includes it;
\* in pkg, k.env was skipped as ignored, a.go was dropped by the block list
\* and d.ts, which matches an include pattern of the rule of pkg, is in the
\* output.
C26_Witness ==
  /\ Done
  /\ <<"pkg">> \in EnteredAsForced
  /\ \E e \in EntryEvents :
       e.path = <<"pkg", "k.env">> /\ ~Forced(e) /\ e.verdict = "ignored"
  /\ \E e \in EntryEvents :
       e.path = <<"pkg", "a.go">> /\ ~Forced(e) /\ e.verdict = "exclude_ext"
  /\ \E e \in EntryEvents :
       /\ e.path = <<"pkg", "d.ts">> /\ Forced(e) /\ Blocked(e)
       /\ e.verdict = "added" /\ e.path \in EmittedPaths

(***************************************************************************)
(* C27.  When Discover has returned an error: the Rule Store of the        *)
(* configuration it was given has the keys it had before the call, and the *)
(* same rule for each.                                                     *)
(***************************************************************************)
C27_FailedDiscoverLeavesStore ==
  (disc.pc = "done" /\ disc.err # "nil" /\ disc.given)
  => /\ DOMAIN disc.existing.Dirs = DOMAIN disc.input.Dirs
     /\ \A k \in DOMAIN disc.input.Dirs :
          disc.existing.Dirs[k] = disc.input.Dirs[k]

(***************************************************************************)
(* C28.  When Discover has returned a store from the store a previous      *)
(* Discover returned, over the same tree: the two stores have the same     *)
(* keys and, for every key, the same enabled flag, the same set of         *)
(* extensions and the same include, exclude and excludeExtensions lists.   *)
(***************************************************************************)
C28_DiscoverIdempotent ==
  (Returned /\ disc.calls > 1)
  => /\ DOMAIN Store = DOMAIN InputStore
     /\ \A k \in DOMAIN InputStore :
          /\ Store[k].Enabled = InputStore[k].Enabled
          /\ ExtSet(Store[k]) = ExtSet(InputStore[k])
          /\ Store[k].Include = InputStore[k].Include
          /\ Store[k].Exclude = InputStore[k].Exclude
          /\ Store[k].ExcludeExtensions = InputStore[k].ExcludeExtensions

\* The second Discover has returned; the first one had filled in the
\* extensions of "." and added a rule for web.
C28_Witness ==
  /\ Returned /\ disc.calls = 2
  /\ {".", "web"} \subseteq DOMAIN Store
  /\ ExtSet(Store["."]) = ExtUnion(<<>>)
  /\ ExtSet(Store["."]) # {}
  /\ ExtSet(Store["web"]) # {}
  /\ Store["."].Include # <<>>

(***************************************************************************)
(* C29.  From the moment Discover has filled in the extensions of a "."    *)
(* rule it was given with an empty extensions list: the rule has the       *)
(* enabled flag and the include, exclude and excludeExtensions lists it    *)
(* was given, and the configuration has the output file it was given.      *)
(***************************************************************************)
C29_FillKeepsOtherFields ==
  (/\ disc.pc # "idle" /\ disc.given
   /\ "." \in DOMAIN InputStore
   /\ Len(InputStore["."].Extensions) = 0)
  => /\ Store["."].Enabled = InputStore["."].Enabled
     /\ Store["."].Include = InputStore["."].Include
     /\ Store["."].Exclude = InputStore["."].Exclude
     /\ Store["."].ExcludeExtensions = InputStore["."].ExcludeExtensions
     /\ disc.cfg.OutputFile = disc.input.OutputFile

\* Discover returned; it was given out.txt and a "." rule with include
\* patterns and a block list and no extensions, and has filled them in.
C29_Witness ==
  /\ Returned /\ disc.given
  /\ "." \in DOMAIN InputStore
  /\ InputStore["."].Extensions = <<>>
  /\ InputStore["."].Include # <<>>
  /\ InputStore["."].ExcludeExtensions # <<>>
  /\ disc.input.OutputFile = "out.txt"
  /\ Store["."].Extensions # <<>>

(***************************************************************************)
(* C30.  When Scan has returned: a directory that walk entered with a      *)
(* disabled rule, whose own Rule Store entry is disabled, whose name is    *)
(* reserved, that matches an exclude pattern of the rule active in its     *)
(* parent, or that the matcher matches while no include pattern does, was  *)
(* not listed and its listing did not fail; and if Scan returned the error *)
(* of a listing, it is the listing of a directory that was not skipped.    *)
(***************************************************************************)
SkippedDir(d) ==
  \/ \E e \in DirEvents : e.path = d /\ ~e.rule.Enabled
  \/ \E e \in EntryEvents :
       /\ e.path = d
       /\ \/ Reserved(e)
          \/ Excluded(e)
          \/ subDirDisabled(cfg.Dirs, RelPath(d))
          \/ Ignored(e) /\ ~Forced(e)

ListingFailed(d) ==
  \E e \in DirEvents : e.path = d /\ e.verdict = "readdir_error"

C30_SkippedDirNeverListed ==
  Done =>
    /\ \A d \in dirs :
         SkippedDir(d) => d \notin Listed /\ ~ListingFailed(d)
    /\ result = "readdir"
       => \E d \in dirs :
            FaultAt("readdir", d) /\ ListingFailed(d) /\ ~SkippedDir(d)
    /\ (\A d \in dirs : FaultAt("readdir", d) => SkippedDir(d))
       => result = "nil"

\* pkg cannot be listed; the matcher matches it and no include pattern
\* does, it was skipped, web was listed after it and Scan returned no error.
C30_Witness ==
  /\ Done /\ result = "nil"
  /\ FaultAt("readdir", <<"pkg">>)
  /\ \E e \in EntryEvents :
       /\ e.path = <<"pkg">> /\ Ignored(e) /\ ~Forced(e)
       /\ e.verdict = "ignored"
  /\ <<"web">> \in Listed
====
